---- MODULE Spec2Model ----
(***************************************************************************)
(* Model of v3/crates/jsonapi/src/middleware.rs:                           *)
(*   - rest_request_tracing_middleware: wraps every `/v1/rest` request in  *)
(*     a tracing span whose parent comes from the request's headers;       *)
(*   - build_state_with_middleware_error_converter: decorates a server     *)
(*     state with the JSON:API middleware-error converter.                 *)
(* The tracer (tracing_util), the wrapper type (engine_types) and the      *)
(* error type (crate::types::JsonApiHttpError) are collaborators whose     *)
(* behaviour is taken from the design document.                            *)
(***************************************************************************)
EXTENDS Integers, Sequences, FiniteSets, TLC

(* ------------------------------ bounds -------------------------------- *)
NumRequests == 2
MaxChildSpans == 1
MaxWrappers == 2
MaxConversions == 3

Requests == 1..NumRequests

(* ------------------------------ values -------------------------------- *)
\* line 15: let path = "/v1/rest";
path == "/v1/rest"

\* line 20: SpanVisibility::User
SpanVisibilityUser == "User"

EmptyHeaders == [h \in {} |-> ""]

TraceParentValues == {"00-aaaa-1111-01", "00-bbbb-2222-01", "garbage"}

\* The header collections a request can arrive with.
HeaderMaps ==
    {EmptyHeaders} \cup {[h \in {"traceparent"} |-> v] : v \in TraceParentValues}

\* Request<Body>: only the header collection matters to the middleware.
Request(headers) == [headers |-> headers]

NoRequest == [headers |-> EmptyHeaders]

JsonHeaders == [h \in {"content-type"} |-> "application/json"]

NoResponse == [status |-> 0, headers |-> EmptyHeaders, body |-> <<>>]

\* Responses the handlers of the downstream chain can produce.
HandlerResponses ==
    { [status |-> 200, headers |-> JsonHeaders, body |-> <<"data">>],
      [status |-> 500, headers |-> EmptyHeaders, body |-> <<"internal">>] }

\* Server states handed to build_state_with_middleware_error_converter.
States == {"stateA", "stateB"}

ErrorKinds == {"invalid-request-body", "internal-error"}

MiddlewareErrors ==
    { [kind |-> "invalid-request-body", message |-> "unexpected end of input"],
      [kind |-> "internal-error", message |-> "boom"] }

(* --------------------------- tracer gateway --------------------------- *)
RootParent == [kind |-> "root", req |-> 0, id |-> 0]

\* Parse a traceparent header value: version-traceid-spanid-flags.
ParseTraceParent(v) ==
    CASE v = "00-aaaa-1111-01" -> [valid |-> TRUE, id |-> 1111]
      [] v = "00-bbbb-2222-01" -> [valid |-> TRUE, id |-> 2222]
      [] OTHER -> [valid |-> FALSE, id |-> 0]

\* Extraction of the parent trace context from a header collection; an
\* absent or unrecognisable context yields a root span.
ExtractParentContext(headers) ==
    IF "traceparent" \in DOMAIN headers
        /\ ParseTraceParent(headers["traceparent"]).valid
    THEN [kind |-> "remote", req |-> 0,
          id |-> ParseTraceParent(headers["traceparent"]).id]
    ELSE RootParent

\* A span as recorded by the tracer.
StartSpan(name, visibility, kind, parent) ==
    [name |-> name, visibility |-> visibility, kind |-> kind,
     parent |-> parent, open |-> TRUE, outcome |-> "unset", label |-> ""]

\* TraceableHttpResponse::new(response, path)
TraceableHttpResponseNew(response, label) ==
    [response |-> response, path |-> label]

\* Traceable::get_error of a TraceableHttpResponse: status-derived outcome.
GetError(traceable) ==
    IF traceable.response.status >= 400 THEN "error" ELSE "ok"

\* Annotate a span from the block's result (outcome, and the label the
\* result carries) and close it.
EndSpan(span, traceable) ==
    [span EXCEPT !.open = FALSE, !.outcome = GetError(traceable),
                 !.label = traceable.path]

(* ----------------------- JSON:API error type -------------------------- *)
\* The HTTP status documented for each kind of middleware error.
StatusOfKind(kind) ==
    CASE kind = "invalid-request-body" -> 400
      [] kind = "internal-error" -> 500

\* JsonApiHttpError::from_middleware_error(error)
FromMiddlewareError(error) ==
    [status |-> StatusOfKind(error.kind), code |-> error.kind,
     message |-> error.message]

\* IntoResponse for JsonApiHttpError: status + JSON body.
IntoResponse(httpError) ==
    [status |-> httpError.status, headers |-> JsonHeaders,
     body |-> <<"errors", httpError.code, httpError.message>>]

(* ------------------------------- state -------------------------------- *)
VARIABLES
    pc,          \* per request: "new", "awaiting", "done", "cancelled"
    request,     \* per request: the request received by the middleware
    passed,      \* per request: the request handed to next.run
    held,        \* per request: that request as the chain now holds it
    calls,       \* per request: number of next.run invocations
    spans,       \* per request: the spans recorded by the tracer
    log,         \* per request: the events of its task, in order
    produced,    \* per request: the response the downstream chain produced
    returned,    \* per request: the response returned to the caller
    wrappers,    \* the WithMiddlewareErrorConverter values built so far
    original,    \* each wrapper as it was at construction
    conversions  \* the conversions performed: wrapper, error, response

vars ==
    <<pc, request, passed, held, calls, spans, log, produced, returned,
      wrappers, original, conversions>>

reqVars ==
    <<pc, request, passed, held, calls, spans, log, produced, returned>>

wrapVars == <<wrappers, original, conversions>>

Init ==
    /\ pc = [r \in Requests |-> "new"]
    /\ request = [r \in Requests |-> NoRequest]
    /\ passed = [r \in Requests |-> NoRequest]
    /\ held = [r \in Requests |-> NoRequest]
    /\ calls = [r \in Requests |-> 0]
    /\ spans = [r \in Requests |-> <<>>]
    /\ log = [r \in Requests |-> <<>>]
    /\ produced = [r \in Requests |-> NoResponse]
    /\ returned = [r \in Requests |-> NoResponse]
    /\ wrappers = <<>>
    /\ original = <<>>
    /\ conversions = <<>>

(* ----------------------- middleware.rs, 34..40 ------------------------ *)
\* Variant: the converter keeps a count and answers later errors generically.
middleware_error_converter_stateful(error) ==
    IF Len(conversions) = 0
    THEN IntoResponse(FromMiddlewareError(error))
    ELSE IntoResponse([status |-> 500, code |-> "internal-error",
                       message |-> error.message])

\* Variant: the converter covers one kind only and yields nothing otherwise.
middleware_error_converter_partial(error) ==
    IF error.kind = "invalid-request-body"
    THEN IntoResponse(FromMiddlewareError(error))
    ELSE NoResponse

\* The closure of lines 37..39:
\*   |error| JsonApiHttpError::from_middleware_error(error).into_response()
middleware_error_converter(error) ==
    IntoResponse(FromMiddlewareError(error))

\* Name under which a wrapper stores the closure above.
JsonApiConverter == "JsonApiHttpError::from_middleware_error"

\* WithMiddlewareErrorConverter::new(state, converter)
WithMiddlewareErrorConverterNew(state, converter) ==
    [state |-> state, converter |-> converter]

\* Variant: the wrapper is built around a default state, not the given one.
build_state_with_default_state(state) ==
    WithMiddlewareErrorConverterNew("default", JsonApiConverter)

\* lines 34..40
build_state_with_middleware_error_converter(state) ==
    WithMiddlewareErrorConverterNew(state, JsonApiConverter)

\* The framework calling the conversion function a wrapper stores.
InvokeConverter(wrapper, error) ==
    IF wrapper.converter = JsonApiConverter
    THEN middleware_error_converter(error)
    ELSE NoResponse

\* Variant: the freshly attached converter is tried out on a sample error.
Build_invoking_converter(state) ==
    /\ Len(wrappers) < MaxWrappers
    /\ wrappers' = Append(wrappers, build_state_with_middleware_error_converter(state))
    /\ original' = Append(original,
           [state |-> state,
            converter |-> build_state_with_middleware_error_converter(state).converter])
    /\ conversions' = Append(conversions,
           [wrapper |-> Len(wrappers) + 1,
            error |-> [kind |-> "internal-error", message |-> "boom"],
            response |-> middleware_error_converter(
                             [kind |-> "internal-error", message |-> "boom"])])

\* A server state is decorated (server bootstrap).
Build(state) ==
    /\ Len(wrappers) < MaxWrappers
    /\ wrappers' = Append(wrappers, build_state_with_middleware_error_converter(state))
    /\ original' = Append(original,
           [state |-> state,
            converter |-> build_state_with_middleware_error_converter(state).converter])
    /\ UNCHANGED conversions

\* The framework converts one middleware error with wrapper w.
Convert(w, error) ==
    /\ w \in DOMAIN wrappers
    /\ Len(conversions) < MaxConversions
    /\ conversions' = Append(conversions,
           [wrapper |-> w, error |-> error,
            response |-> InvokeConverter(wrappers[w], error)])
    /\ UNCHANGED <<wrappers, original>>

(* ----------------------- middleware.rs, 10..31 ------------------------ *)
Max(S) == CHOOSE x \in S : \A y \in S : y <= x

OpenSpans(r) == {i \in DOMAIN spans[r] : spans[r][i].open}

OpenChildSpans(r) == {i \in OpenSpans(r) : spans[r][i].kind = "child"}

RequestSpans(r) == {i \in DOMAIN spans[r] : spans[r][i].kind = "request"}

\* Nested spans open at once, over all requests.
TotalOpenChildSpans ==
    Cardinality({x \in Requests \X (1..(MaxChildSpans + 1)) :
                    x[2] \in OpenChildSpans(x[1])})

\* The context downstream work of request r runs in: its innermost open span.
CurrentContext(r) ==
    IF OpenSpans(r) = {} THEN RootParent
    ELSE [kind |-> "local", req |-> r, id |-> Max(OpenSpans(r))]

\* Variant: a fresh, empty header map is passed instead of the request's.
HeadersSnapshot_empty(req) == EmptyHeaders

\* Variant: the headers are read from a slot shared by all requests.
HeadersSnapshot_shared(req) == request[1].headers

\* line 21: &request.headers().clone()
HeadersSnapshot(req) == req.headers

\* Variant: the status is lost when the response is paired with the path.
BlockResult_default_status(response) ==
    TraceableHttpResponseNew([response EXCEPT !.status = 200], path)

\* Variant: the response is paired with a label made from its status.
BlockResult_status_label(response) ==
    TraceableHttpResponseNew(response,
        IF response.status >= 400 THEN "error" ELSE path)

\* line 25: TraceableHttpResponse::new(response, path)
BlockResult(response) == TraceableHttpResponseNew(response, path)

\* Variant: the returned response is rebuilt from the body alone.
ReturnedResponse_rebuilt(traceable) ==
    [status |-> 200, headers |-> EmptyHeaders, body |-> traceable.response.body]

\* line 30: .response
ReturnedResponse(traceable) == traceable.response

\* Variant: one span is started for the name and one for the display name.
rest_request_tracing_middleware_call_two_spans(r, req) ==
    /\ pc[r] = "new"
    /\ request' = [request EXCEPT ![r] = req]
    /\ spans' = [spans EXCEPT ![r] =
           @ \o << StartSpan(path, SpanVisibilityUser, "request",
                             ExtractParentContext(HeadersSnapshot(req))),
                   StartSpan(path, SpanVisibilityUser, "request",
                             ExtractParentContext(HeadersSnapshot(req))) >>]
    /\ passed' = [passed EXCEPT ![r] = req]
    /\ held' = [held EXCEPT ![r] = req]
    /\ calls' = [calls EXCEPT ![r] = @ + 1]
    /\ log' = [log EXCEPT ![r] =
           @ \o <<"extract_context", "span_open", "span_open", "next_run">>]
    /\ pc' = [pc EXCEPT ![r] = "awaiting"]
    /\ UNCHANGED <<produced, returned>>

\* Variant: the span covers only the creation of the future, not its await.
rest_request_tracing_middleware_call_span_not_held(r, req) ==
    /\ pc[r] = "new"
    /\ request' = [request EXCEPT ![r] = req]
    /\ spans' = [spans EXCEPT ![r] =
           Append(@, [StartSpan(path, SpanVisibilityUser, "request",
                                ExtractParentContext(HeadersSnapshot(req)))
                      EXCEPT !.open = FALSE, !.outcome = "ok"])]
    /\ passed' = [passed EXCEPT ![r] = req]
    /\ held' = [held EXCEPT ![r] = req]
    /\ calls' = [calls EXCEPT ![r] = @ + 1]
    /\ log' = [log EXCEPT ![r] =
           @ \o <<"extract_context", "span_open", "span_close", "next_run">>]
    /\ pc' = [pc EXCEPT ![r] = "awaiting"]
    /\ UNCHANGED <<produced, returned>>

\* Variant: the trace header, once read, is taken off the request that is
\* handed to the chain.
rest_request_tracing_middleware_call_strips_header(r, req) ==
    /\ pc[r] = "new"
    /\ request' = [request EXCEPT ![r] = req]
    /\ spans' = [spans EXCEPT ![r] =
           Append(@, StartSpan(path, SpanVisibilityUser, "request",
                               ExtractParentContext(HeadersSnapshot(req))))]
    /\ passed' = [passed EXCEPT ![r] = Request(EmptyHeaders)]
    /\ held' = [held EXCEPT ![r] = Request(EmptyHeaders)]
    /\ calls' = [calls EXCEPT ![r] = @ + 1]
    /\ log' = [log EXCEPT ![r] = @ \o <<"extract_context", "span_open", "next_run">>]
    /\ pc' = [pc EXCEPT ![r] = "awaiting"]
    /\ UNCHANGED <<produced, returned>>

\* Variant: the task is suspended once more, between reading the context
\* and starting the span.
rest_request_tracing_middleware_call_suspends_early(r, req) ==
    \/ /\ pc[r] = "new"
       /\ request' = [request EXCEPT ![r] = req]
       /\ log' = [log EXCEPT ![r] = @ \o <<"extract_context">>]
       /\ pc' = [pc EXCEPT ![r] = "extracted"]
       /\ UNCHANGED <<passed, held, calls, spans, produced, returned>>
    \/ /\ pc[r] = "extracted"
       /\ req = request[r]
       /\ spans' = [spans EXCEPT ![r] =
              Append(@, StartSpan(path, SpanVisibilityUser, "request",
                                  ExtractParentContext(HeadersSnapshot(req))))]
       /\ passed' = [passed EXCEPT ![r] = req]
       /\ held' = [held EXCEPT ![r] = req]
       /\ calls' = [calls EXCEPT ![r] = @ + 1]
       /\ log' = [log EXCEPT ![r] = @ \o <<"span_open", "next_run">>]
       /\ pc' = [pc EXCEPT ![r] = "awaiting"]
       /\ UNCHANGED <<request, produced, returned>>

\* lines 14..24, up to the suspension in next.run(request).await: the
\* parent context is extracted from the header snapshot, the span is
\* started, the block is invoked and hands the request to the chain.
rest_request_tracing_middleware_call(r, req) ==
    /\ pc[r] = "new"
    /\ request' = [request EXCEPT ![r] = req]
    /\ spans' = [spans EXCEPT ![r] =
           Append(@, StartSpan(path, SpanVisibilityUser, "request",
                               ExtractParentContext(HeadersSnapshot(req))))]
    /\ passed' = [passed EXCEPT ![r] = req]
    /\ held' = [held EXCEPT ![r] = req]
    /\ calls' = [calls EXCEPT ![r] = @ + 1]
    /\ log' = [log EXCEPT ![r] = @ \o <<"extract_context", "span_open", "next_run">>]
    /\ pc' = [pc EXCEPT ![r] = "awaiting"]
    /\ UNCHANGED <<produced, returned>>

\* Variant: a 5xx response makes the middleware run the chain once more.
rest_request_tracing_middleware_resume_retry(r, response, how) ==
    /\ pc[r] = "awaiting"
    /\ IF response.status >= 500 /\ calls[r] < 2
       THEN /\ calls' = [calls EXCEPT ![r] = @ + 1]
            /\ log' = [log EXCEPT ![r] = @ \o how \o <<"downstream_done", "next_run">>]
            /\ UNCHANGED <<pc, request, passed, spans, produced, returned>>
       ELSE /\ produced' = [produced EXCEPT ![r] = response]
            /\ spans' = [spans EXCEPT ![r] =
                   [i \in DOMAIN @ |->
                       IF i \in RequestSpans(r) /\ @[i].open
                       THEN EndSpan(@[i], BlockResult(response))
                       ELSE @[i]]]
            /\ returned' = [returned EXCEPT ![r] =
                   ReturnedResponse(BlockResult(response))]
            /\ log' = [log EXCEPT ![r] =
                   @ \o how \o <<"downstream_done", "traceable_new",
                                 "span_annotate", "span_close", "return">>]
            /\ pc' = [pc EXCEPT ![r] = "done"]
            /\ UNCHANGED <<request, passed, calls>>

\* Variant: an error response is returned at once, the span left as it is.
rest_request_tracing_middleware_resume_leak_on_error(r, response, how) ==
    /\ pc[r] = "awaiting"
    /\ produced' = [produced EXCEPT ![r] = response]
    /\ spans' = [spans EXCEPT ![r] =
           [i \in DOMAIN @ |->
               IF i \in RequestSpans(r) /\ @[i].open /\ response.status < 500
               THEN EndSpan(@[i], BlockResult(response))
               ELSE @[i]]]
    /\ returned' = [returned EXCEPT ![r] = ReturnedResponse(BlockResult(response))]
    /\ log' = [log EXCEPT ![r] =
           @ \o how \o
           (IF response.status < 500
            THEN <<"downstream_done", "traceable_new", "span_annotate",
                   "span_close", "return">>
            ELSE <<"downstream_done", "return">>)]
    /\ pc' = [pc EXCEPT ![r] = "done"]
    /\ UNCHANGED <<request, passed, calls>>

\* Variant: the block yields the bare response, so the span is closed
\* without it, and the response is paired with the path only afterwards.
rest_request_tracing_middleware_resume_wrap_after_close(r, response, how) ==
    /\ pc[r] = "awaiting"
    /\ produced' = [produced EXCEPT ![r] = response]
    /\ spans' = [spans EXCEPT ![r] =
           [i \in DOMAIN @ |->
               IF i \in RequestSpans(r) /\ @[i].open
               THEN [@[i] EXCEPT !.open = FALSE]
               ELSE @[i]]]
    /\ returned' = [returned EXCEPT ![r] = ReturnedResponse(BlockResult(response))]
    /\ log' = [log EXCEPT ![r] =
           @ \o how \o <<"downstream_done", "span_close", "traceable_new",
                         "return">>]
    /\ pc' = [pc EXCEPT ![r] = "done"]
    /\ UNCHANGED <<request, passed, calls>>

\* lines 24..30, from the completion of next.run(request).await: the
\* response is paired with the path, the span is annotated with it and
\* closed, and the response is unwrapped and returned.
rest_request_tracing_middleware_resume(r, response, how) ==
    /\ pc[r] = "awaiting"
    /\ produced' = [produced EXCEPT ![r] = response]
    /\ spans' = [spans EXCEPT ![r] =
           [i \in DOMAIN @ |->
               IF i \in RequestSpans(r) /\ @[i].open
               THEN EndSpan(@[i], BlockResult(response))
               ELSE @[i]]]
    /\ returned' = [returned EXCEPT ![r] = ReturnedResponse(BlockResult(response))]
    /\ log' = [log EXCEPT ![r] =
           @ \o how \o <<"downstream_done", "traceable_new", "span_annotate",
                         "span_close", "return">>]
    /\ pc' = [pc EXCEPT ![r] = "done"]
    /\ UNCHANGED <<request, passed, calls>>

(* ------------------------- downstream chain --------------------------- *)
\* Downstream work opens a nested span in the current context.
DownstreamOpenSpan(r) ==
    /\ pc[r] = "awaiting"
    /\ TotalOpenChildSpans < MaxChildSpans
    /\ spans' = [spans EXCEPT ![r] =
           Append(@, StartSpan("downstream", "Internal", "child", CurrentContext(r)))]
    /\ UNCHANGED <<pc, request, passed, held, calls, log, produced, returned>>

\* Downstream work leaves its innermost nested span: the span ends and is
\* handed to the exporter.
DownstreamCloseSpan(r) ==
    /\ pc[r] = "awaiting"
    /\ OpenChildSpans(r) # {}
    /\ spans' = [spans EXCEPT ![r] =
           [i \in DOMAIN @ \ {Max(OpenChildSpans(r))} |-> @[i]]]
    /\ UNCHANGED <<pc, request, passed, held, calls, log, produced, returned>>

\* What a layer of the chain makes of the headers of the request it owns:
\* it takes the trace header off, or puts one on.
RewriteHeaders(headers) ==
    IF "traceparent" \in DOMAIN headers
    THEN EmptyHeaders
    ELSE [h \in {"traceparent"} |-> "00-bbbb-2222-01"]

\* A layer of the chain rewrites the headers of the request it was handed.
DownstreamRewritesHeaders(r) ==
    /\ pc[r] = "awaiting"
    /\ held[r] = passed[r]
    /\ held' = [held EXCEPT ![r] = Request(RewriteHeaders(held[r].headers))]
    /\ UNCHANGED <<pc, request, passed, calls, spans, log, produced, returned>>

\* A handler produces the response: next.run(request) completes.
DownstreamResponds(r, response) ==
    /\ OpenChildSpans(r) = {}
    /\ held' = [held EXCEPT ![r] = NoRequest]    \* the chain used the request up
    /\ rest_request_tracing_middleware_resume(r, response, <<"handler">>)
    /\ UNCHANGED wrapVars

\* A layer below the handlers fails with a middleware error; the server
\* state's converter turns it into the response of the chain.
DownstreamLayerFails(r, error) ==
    /\ pc[r] = "awaiting"
    /\ OpenChildSpans(r) = {}
    /\ held' = [held EXCEPT ![r] = NoRequest]    \* the chain used the request up
    /\ Convert(1, error)
    /\ rest_request_tracing_middleware_resume(r,
           InvokeConverter(wrappers[1], error), <<"layer_error", "convert">>)

\* The runtime drops the request task while it is suspended in next.run.
Cancel(r) ==
    /\ pc[r] = "awaiting"
    /\ pc' = [pc EXCEPT ![r] = "cancelled"]
    /\ log' = [log EXCEPT ![r] = Append(@, "cancel")]
    /\ held' = [held EXCEPT ![r] = NoRequest]    \* dropped with the future
    /\ UNCHANGED <<request, passed, calls, spans, produced, returned, wrapVars>>

\* The server is bootstrapped with one decorated state.
Bootstrap(state) ==
    /\ Len(wrappers) = 0
    /\ Build(state)
    /\ UNCHANGED reqVars

(* --------------------------- specifications --------------------------- *)
\* The server: one decorated state, requests through the middleware.
Next ==
    \/ \E s \in States : Bootstrap(s)
    \/ \E r \in Requests, h \in HeaderMaps :
           /\ Len(wrappers) >= 1    \* requests are served once bootstrapped
           /\ rest_request_tracing_middleware_call(r, Request(h))
           /\ UNCHANGED wrapVars
    \/ \E r \in Requests : DownstreamOpenSpan(r) /\ UNCHANGED wrapVars
    \/ \E r \in Requests : DownstreamCloseSpan(r) /\ UNCHANGED wrapVars
    \/ \E r \in Requests : DownstreamRewritesHeaders(r) /\ UNCHANGED wrapVars
    \/ \E r \in Requests, resp \in HandlerResponses : DownstreamResponds(r, resp)
    \/ \E r \in Requests, e \in MiddlewareErrors : DownstreamLayerFails(r, e)
    \/ \E r \in Requests : Cancel(r)

Spec == Init /\ [][Next]_vars

\* The wrapper on its own: states are decorated, errors are converted.
NextWrapper ==
    \/ \E s \in States : Build(s) /\ UNCHANGED reqVars
    \/ \E w \in 1..MaxWrappers, e \in MiddlewareErrors :
           Convert(w, e) /\ UNCHANGED reqVars

SpecWrapper == Init /\ [][NextWrapper]_vars

(* ------------------------------ properties ---------------------------- *)
Count(seq, e) == Cardinality({i \in DOMAIN seq : seq[i] = e})

\* Position of the first occurrence of e in seq, 0 when there is none.
Pos(seq, e) ==
    LET at == {i \in DOMAIN seq : seq[i] = e}
    IN  IF at = {} THEN 0 ELSE CHOOSE i \in at : \A j \in at : i <= j

Arrived(r) == pc[r] # "new"

RequestSpanOpen(r) == \E i \in RequestSpans(r) : spans[r][i].open

HasTraceHeader(r) == "traceparent" \in DOMAIN request[r].headers

\* C1: every request that runs to completion, whatever its outcome, has had
\* exactly one span opened and exactly one span closed, the open before the
\* close; a span is never closed more often than opened.
C1_OneSpanOpenedAndClosed ==
    \A r \in Requests :
        /\ Count(log[r], "span_close") <= Count(log[r], "span_open")
        /\ Count(log[r], "span_open") <= 1
        /\ pc[r] = "done" =>
              /\ Count(log[r], "span_open") = 1
              /\ Count(log[r], "span_close") = 1
              /\ Pos(log[r], "span_open") < Pos(log[r], "span_close")
              /\ Cardinality(RequestSpans(r)) = 1
              /\ ~RequestSpanOpen(r)

\* Two completed requests: a success with a trace header, an error without.
C1_Witness ==
    \E r1, r2 \in Requests :
        /\ pc[r1] = "done" /\ pc[r2] = "done"
        /\ HasTraceHeader(r1) /\ produced[r1].status = 200
        /\ ~HasTraceHeader(r2) /\ produced[r2].status >= 400

\* C2: the span is started before the downstream chain is entered and is
\* closed only after the chain has completed; no nested downstream span is
\* open while the span of its request is closed.
C2_SpanEnclosesDownstream ==
    \A r \in Requests :
        /\ calls[r] > 0 =>
              /\ Pos(log[r], "span_open") > 0
              /\ Pos(log[r], "span_open") < Pos(log[r], "next_run")
        /\ Pos(log[r], "span_close") > 0 =>
              /\ Pos(log[r], "downstream_done") > 0
              /\ Pos(log[r], "downstream_done") < Pos(log[r], "span_close")
        /\ OpenChildSpans(r) # {} => RequestSpanOpen(r)
        /\ \A i \in OpenChildSpans(r) :
              /\ spans[r][i].parent.kind = "local"
              /\ spans[r][spans[r][i].parent.id].open

\* One request has completed while another has a nested span open.
C2_Witness ==
    \E r1, r2 \in Requests :
        /\ pc[r1] = "done" /\ ~RequestSpanOpen(r1)
        /\ pc[r2] = "awaiting" /\ OpenChildSpans(r2) # {}

\* C3: the response returned to the caller is the response the downstream
\* chain produced, in status, headers and body; nothing is returned before
\* the chain has produced it.
C3_ResponsePassedThrough ==
    \A r \in Requests :
        /\ pc[r] = "done" =>
              /\ returned[r].status = produced[r].status
              /\ returned[r].headers = produced[r].headers
              /\ returned[r].body = produced[r].body
              /\ returned[r] # NoResponse
        /\ pc[r] # "done" => returned[r] = NoResponse

\* A handler's error response and a converted middleware error were returned.
C3_Witness ==
    \E r1, r2 \in Requests :
        /\ pc[r1] = "done" /\ returned[r1] \in HandlerResponses
        /\ returned[r1].status = 500
        /\ pc[r2] = "done"
        /\ Pos(log[r2], "convert") > 0 /\ returned[r2].status = 400

\* C4: the downstream chain is run exactly once per request, while the span
\* is open: never a second time, never skipped, never outside the span.
C4_ChainRunExactlyOnce ==
    \A r \in Requests :
        /\ calls[r] <= 1
        /\ Count(log[r], "next_run") = calls[r]
        /\ Arrived(r) => calls[r] = 1
        /\ returned[r] # NoResponse => calls[r] = 1
        /\ calls[r] = 1 =>
              /\ Pos(log[r], "span_open") > 0
              /\ Pos(log[r], "span_open") < Pos(log[r], "next_run")
              /\ Pos(log[r], "span_close") = 0
                    \/ Pos(log[r], "next_run") < Pos(log[r], "span_close")

\* A request completed with a 500 response after a single run of the chain.
C4_Witness ==
    \E r \in Requests :
        pc[r] = "done" /\ produced[r].status = 500 /\ calls[r] = 1

\* C5: a recognisable parent trace context in the headers is the parent of
\* the request's span; with none the span is a root span, and the request
\* is processed all the same.
C5_ParentFromHeaders ==
    \A r \in Requests :
        Arrived(r) =>
            /\ calls[r] = 1
            /\ \A i \in RequestSpans(r) :
                  /\ ~HasTraceHeader(r) => spans[r][i].parent = RootParent
                  /\ HasTraceHeader(r) =>
                        /\ request[r].headers["traceparent"] = "00-aaaa-1111-01" =>
                              spans[r][i].parent =
                                  [kind |-> "remote", req |-> 0, id |-> 1111]
                        /\ request[r].headers["traceparent"] = "00-bbbb-2222-01" =>
                              spans[r][i].parent =
                                  [kind |-> "remote", req |-> 0, id |-> 2222]
                        /\ request[r].headers["traceparent"] = "garbage" =>
                              spans[r][i].parent = RootParent

\* A request with a parent context and one without have both completed.
C5_Witness ==
    \E r1, r2 \in Requests :
        /\ pc[r1] = "done" /\ HasTraceHeader(r1)
        /\ \E i \in RequestSpans(r1) : spans[r1][i].parent.kind = "remote"
        /\ pc[r2] = "done" /\ ~HasTraceHeader(r2)
        /\ \E i \in RequestSpans(r2) : spans[r2][i].parent.kind = "root"
        /\ returned[r2] # NoResponse

\* C6: with requests interleaved at will, each request has its own span,
\* whose parent comes from that request's own headers only; nested spans
\* hang under a span of their own request; each request is handed its own
\* request downstream and gets its own response back.
C6_RequestsIndependent ==
    \A r \in Requests :
        Arrived(r) =>
            /\ Cardinality(RequestSpans(r)) = 1
            /\ passed[r] = request[r]
            /\ returned[r] \in {NoResponse, produced[r]}
            /\ \A i \in RequestSpans(r) :
                  /\ spans[r][i].parent.kind \in {"root", "remote"}
                  /\ spans[r][i].parent.kind = "remote" =>
                        /\ HasTraceHeader(r)
                        /\ ParseTraceParent(request[r].headers["traceparent"]).id
                              = spans[r][i].parent.id
                  /\ spans[r][i].parent.kind = "root" =>
                        \/ ~HasTraceHeader(r)
                        \/ ~ParseTraceParent(request[r].headers["traceparent"]).valid
            /\ \A i \in DOMAIN spans[r] \ RequestSpans(r) :
                  /\ spans[r][i].parent.kind = "local"
                  /\ spans[r][i].parent.req = r
                  /\ spans[r][i].parent.id \in DOMAIN spans[r]

\* Two requests in flight at once with different parents, one of them with
\* a nested span open.
C6_Witness ==
    \E r1, r2 \in Requests :
        /\ r1 # r2
        /\ pc[r1] = "awaiting" /\ pc[r2] = "awaiting"
        /\ OpenChildSpans(r2) # {}
        /\ \E i \in RequestSpans(r1), j \in RequestSpans(r2) :
              /\ spans[r1][i].parent.kind = "remote"
              /\ spans[r2][j].parent # spans[r1][i].parent

\* C7: an error response is a normal completion: the span is closed once and
\* marked failed; a success response closes it marked successful; requests
\* completing with the same status get the same outcome.
C7_OutcomeFromStatus ==
    \A r \in Requests :
        pc[r] = "done" =>
            /\ Count(log[r], "span_close") = 1
            /\ \A i \in RequestSpans(r) :
                  /\ ~spans[r][i].open
                  /\ produced[r].status = 200 => spans[r][i].outcome = "ok"
                  /\ produced[r].status \in {400, 500} => spans[r][i].outcome = "error"
                  /\ \A r2 \in Requests :
                        \A j \in RequestSpans(r2) :
                            pc[r2] = "done" /\ produced[r2].status = produced[r].status
                                => spans[r2][j].outcome = spans[r][i].outcome

\* One request completed with 200 and a successful span, another with an
\* error response and a failed span.
C7_Witness ==
    \E r1, r2 \in Requests :
        /\ pc[r1] = "done" /\ produced[r1].status = 200
        /\ \E i \in RequestSpans(r1) : spans[r1][i].outcome = "ok"
        /\ pc[r2] = "done" /\ produced[r2].status = 500
        /\ \E i \in RequestSpans(r2) : spans[r2][i].outcome = "error"

\* C8: every exit of a request task from its await of the downstream chain
\* is either its cancellation or the completion of the chain, and on
\* completion the span is closed and the response returned in the same
\* step; so a span left open by a task that is no longer awaiting belongs
\* to a cancelled task.
C8_ClosedUnlessCancelled ==
    /\ [](\A r \in Requests :
             RequestSpanOpen(r) /\ pc[r] # "awaiting" => pc[r] = "cancelled")
    /\ [][\A r \in Requests :
             /\ (pc[r] = "awaiting" /\ pc'[r] # "awaiting") =>
                   \/ pc'[r] = "cancelled" /\ Pos(log'[r], "cancel") > 0
                   \/ /\ pc'[r] = "done"
                      /\ Pos(log'[r], "downstream_done") > 0
             /\ (Pos(log[r], "downstream_done") = 0
                    /\ Pos(log'[r], "downstream_done") > 0) =>
                   /\ pc'[r] = "done"
                   /\ \A i \in DOMAIN spans'[r] : ~spans'[r][i].open
                   /\ returned'[r] # NoResponse
                   /\ Pos(log'[r], "cancel") = 0]_vars

\* One task was cancelled with its span open, another completed.
C8_Witness ==
    \E r1, r2 \in Requests :
        /\ pc[r1] = "cancelled" /\ RequestSpanOpen(r1)
        /\ pc[r2] = "done" /\ ~RequestSpanOpen(r2) /\ returned[r2].status >= 400

C10_WrapperUnchanged ==
    /\ Len(wrappers) = Len(original)
    /\ \A w \in DOMAIN wrappers :
          /\ wrappers[w].state = original[w].state
          /\ wrappers[w].converter = original[w].converter
          /\ wrappers[w].converter = JsonApiConverter

\* Two wrappers around different states, each used for a conversion.
C10_Witness ==
    \E w1, w2 \in DOMAIN wrappers :
        /\ wrappers[w1].state # wrappers[w2].state
        /\ \E i, j \in DOMAIN conversions :
              conversions[i].wrapper = w1 /\ conversions[j].wrapper = w2

LayerFailed(r) == Pos(log[r], "layer_error") > 0

\* C11: a middleware error raised by a layer is converted exactly once, by
\* the converter of the server's wrapper, into a response; that response,
\* never the error, is what the chain yields and the caller receives.
C11_ErrorConvertedOnce ==
    /\ Len(conversions) = Cardinality({r \in Requests : LayerFailed(r)})
    /\ \A i \in DOMAIN conversions :
          /\ conversions[i].wrapper = 1
          /\ conversions[i].response # NoResponse
          /\ conversions[i].response.status \in {400, 500}
          /\ conversions[i].response.body =
                <<"errors", conversions[i].error.kind, conversions[i].error.message>>
    /\ \A r \in Requests :
          LayerFailed(r) =>
              /\ Count(log[r], "layer_error") = 1
              /\ Count(log[r], "convert") = 1
              /\ Pos(log[r], "layer_error") < Pos(log[r], "convert")
              /\ Pos(log[r], "convert") < Pos(log[r], "downstream_done")
              /\ pc[r] = "done"
              /\ \E i \in DOMAIN conversions : conversions[i].response = produced[r]
              /\ returned[r] = produced[r]
              /\ returned[r] # NoResponse

\* Two requests failed in a layer, with errors of different kinds, and each
\* got the converted response.
C11_Witness ==
    \E r1, r2 \in Requests :
        /\ LayerFailed(r1) /\ LayerFailed(r2)
        /\ returned[r1].status = 400 /\ returned[r2].status = 500
        /\ Len(conversions) = 2

\* C12: building a wrapper always succeeds and converts nothing: every
\* state handed in yields a wrapper around it, a step that builds a wrapper
\* leaves the conversions as they were, and nothing is converted before a
\* layer has failed.
C12_BuildTotalNoConversion ==
    /\ [](/\ Len(wrappers) = Len(original)
          /\ \A w \in DOMAIN wrappers :
                /\ original[w].state \in States
                /\ wrappers[w] = [state |-> original[w].state,
                                  converter |-> JsonApiConverter]
          /\ (\A r \in Requests : ~LayerFailed(r)) => conversions = <<>>)
    /\ [][/\ wrappers' # wrappers =>
                /\ Len(wrappers') = Len(wrappers) + 1
                /\ conversions' = conversions
          /\ conversions' # conversions =>
                /\ wrappers' = wrappers
                /\ \E r \in Requests : ~LayerFailed(r) /\ LayerFailed(r)']_vars

\* The server was bootstrapped and has answered a request from a handler,
\* with no conversion so far.
C12_Witness ==
    /\ Len(wrappers) = 1
    /\ conversions = <<>>
    /\ \E r \in Requests : pc[r] = "done" /\ Pos(log[r], "handler") > 0

\* C13: every span the middleware opens is named "/v1/rest" and is user
\* visible, whatever the request carries, and the label its response was
\* paired with, as the closed span records it, is that same route label.
C13_FixedNameAndLabel ==
    \A r \in Requests :
        /\ Arrived(r) => RequestSpans(r) # {}
        /\ \A i \in RequestSpans(r) :
              /\ spans[r][i].name = "/v1/rest"
              /\ spans[r][i].visibility = "User"
              /\ spans[r][i].open => spans[r][i].label = ""
              /\ ~spans[r][i].open => spans[r][i].label = spans[r][i].name

\* Requests with different headers and different responses, one of them an
\* error, have completed.
C13_Witness ==
    \E r1, r2 \in Requests :
        /\ pc[r1] = "done" /\ pc[r2] = "done"
        /\ request[r1] # request[r2]
        /\ produced[r1].status = 200 /\ produced[r2].status >= 400
        /\ \A i \in RequestSpans(r2) : spans[r2][i].label = "/v1/rest"

\* C14: the traceable response is made once the downstream chain has
\* completed and before the span is closed, the span is annotated from it,
\* and only after the span is closed is the plain response returned: no
\* response is with the caller while its span is open or not annotated.
C14_TraceableBetweenDoneAndClose ==
    \A r \in Requests :
        /\ Count(log[r], "traceable_new") <= 1
        /\ Count(log[r], "return") <= 1
        /\ Pos(log[r], "traceable_new") > 0 =>
              /\ Pos(log[r], "downstream_done") > 0
              /\ Pos(log[r], "downstream_done") < Pos(log[r], "traceable_new")
              /\ Pos(log[r], "traceable_new") < Pos(log[r], "span_annotate")
              /\ Pos(log[r], "span_annotate") < Pos(log[r], "span_close")
        /\ Pos(log[r], "return") > 0 =>
              /\ Pos(log[r], "traceable_new") > 0
              /\ Pos(log[r], "span_close") > 0
              /\ Pos(log[r], "span_close") < Pos(log[r], "return")
        /\ returned[r] # NoResponse =>
              /\ Pos(log[r], "return") > 0
              /\ \A i \in RequestSpans(r) :
                    /\ ~spans[r][i].open
                    /\ spans[r][i].outcome # "unset"
                    /\ spans[r][i].label = path

\* A response was returned after a layer failure, its span closed and
\* annotated as failed.
C14_Witness ==
    \E r \in Requests :
        /\ returned[r] # NoResponse /\ LayerFailed(r)
        /\ \A i \in RequestSpans(r) :
              ~spans[r][i].open /\ spans[r][i].outcome = "error"

\* C16: the trace context is read once, before the request is handed to
\* the chain; the request handed on has exactly the headers of the request
\* received; and once the span is started, nothing the chain does to the
\* request it holds changes the span's parent or the request as received.
C16_ContextReadOnceFromSnapshot ==
    /\ [](\A r \in Requests :
             Arrived(r) =>
                 /\ Count(log[r], "extract_context") = 1
                 /\ Pos(log[r], "extract_context") < Pos(log[r], "next_run")
                 /\ DOMAIN passed[r].headers = DOMAIN request[r].headers
                 /\ \A h \in DOMAIN request[r].headers :
                       passed[r].headers[h] = request[r].headers[h]
                 /\ \A i \in RequestSpans(r) :
                       spans[r][i].parent.kind = "remote" <=>
                           /\ "traceparent" \in DOMAIN passed[r].headers
                           /\ passed[r].headers["traceparent"] # "garbage")
    /\ [][\A r \in Requests :
             Arrived(r) =>
                 /\ request'[r] = request[r]
                 /\ passed'[r] = passed[r]
                 /\ RequestSpans(r)' = RequestSpans(r)
                 /\ \A i \in RequestSpans(r) :
                       spans'[r][i].parent = spans[r][i].parent]_vars

\* The chain has taken the trace header off the request it holds; the
\* span still has the parent read from it.
C16_Witness ==
    \E r \in Requests :
        /\ pc[r] = "awaiting"
        /\ "traceparent" \in DOMAIN request[r].headers
        /\ held[r].headers = EmptyHeaders
        /\ \E i \in RequestSpans(r) : spans[r][i].parent.kind = "remote"

\* C15: a request task rests only before it is called, while it awaits the
\* downstream chain, or once it is over: reading the context, starting the
\* span and entering the chain are one step, and so are the completion of
\* the chain, the annotation, the close and the return; a cancellation
\* falls between the two; and once the task is over nothing acts for it.
C15_SuspendsOnlyAtAwait ==
    /\ [](\A r \in Requests :
             /\ pc[r] \in {"new", "awaiting", "done", "cancelled"}
             /\ pc[r] = "new" => log[r] = <<>> /\ spans[r] = <<>>
             /\ pc[r] = "awaiting" =>
                   log[r] = <<"extract_context", "span_open", "next_run">>
             /\ pc[r] = "cancelled" =>
                   log[r] = <<"extract_context", "span_open", "next_run", "cancel">>
             /\ pc[r] = "done" =>
                   /\ SubSeq(log[r], 1, 3) = <<"extract_context", "span_open", "next_run">>
                   /\ SubSeq(log[r], Len(log[r]) - 4, Len(log[r])) =
                         <<"downstream_done", "traceable_new", "span_annotate",
                           "span_close", "return">>
                   /\ Pos(log[r], "cancel") = 0)
    /\ [][\A r \in Requests :
             /\ pc[r] \in {"done", "cancelled"} =>
                   /\ pc'[r] = pc[r]
                   /\ spans'[r] = spans[r]
                   /\ log'[r] = log[r]
                   /\ returned'[r] = returned[r]
                   /\ calls'[r] = calls[r]
             /\ (pc[r] = "awaiting" /\ pc'[r] = "awaiting") =>
                   /\ log'[r] = log[r]
                   /\ calls'[r] = calls[r]
                   /\ \A i \in RequestSpans(r) : spans'[r][i] = spans[r][i]]_vars

\* One task was cancelled while awaiting the chain, with a nested span
\* open; another ran to its end.
C15_Witness ==
    \E r1, r2 \in Requests :
        /\ pc[r1] = "cancelled" /\ OpenChildSpans(r1) # {}
        /\ pc[r2] = "done"

====
